---- MODULE Spec2Model ----
(***************************************************************************)
(* random-access-file (src/src/lib.rs): a positioned-I/O trait             *)
(* (RandomAccessFile, implemented for cfile_rs::CFile) and a binary codec  *)
(* (Serialize, generated by serialize_primitive! for the numeric kinds,    *)
(* their Vec and slice forms, and implemented for String and &str).        *)
(*                                                                         *)
(* The store is a byte sequence `file` with a cursor `pos`; CFile is both  *)
(* the RandomAccessFile and the Read/Write/Seek object the codec uses.     *)
(* A byte has BitsPerByte bits (8 on the machine); every width, modulus    *)
(* and limit below is derived from it, so that 8-byte quantities stay      *)
(* inside the integers the model checker computes with.                     *)
(*                                                                         *)
(* Two specifications:                                                     *)
(*   Spec       the codec over the store as sink and source: serialize,    *)
(*              deserialize and the caller's seek, for one instantiation   *)
(*              of serialize_primitive! at a time.  The medium holds       *)
(*              SinkCapacity bytes: a write fails when it is full, a read  *)
(*              when the data ends.                                        *)
(*   StoreSpec  read_at, write_at, append and at, where besides that any   *)
(*              seek, read or write of the device may fail and any write   *)
(*              may be short.                                              *)
(***************************************************************************)
EXTENDS Integers, Sequences, FiniteSets, TLC

(* ------------------------------ bounds -------------------------------- *)
BitsPerByte == 2
MaxSeqLen == 2
MaxOps == 4
SinkCapacity == 20
MaxOffset == 2
MaxFileLen == 3

(* ------------------------ program constants --------------------------- *)
SIZE_OF_U64 == 8
SIZE_OF_U32 == 4
SIZE_OF_U16 == 2
SIZE_OF_U8 == 1
SIZE_OF_I64 == 8
SIZE_OF_I32 == 4
SIZE_OF_I16 == 2
SIZE_OF_I8 == 1
\* mem::size_of::<usize>() on the 64-bit host
SIZE_OF_USIZE == 8

(* ------------------------------ numbers ------------------------------- *)
RECURSIVE Pow(_, _)
Pow(b, n) == IF n = 0 THEN 1 ELSE b * Pow(b, n - 1)

Min(a, b) == IF a < b THEN a ELSE b

Max(a, b) == IF a > b THEN a ELSE b

\* the number of values of a byte, and the bytes
ByteRadix == Pow(2, BitsPerByte)

Byte == 0 .. (ByteRadix - 1)

Zeros(n) == [i \in 1 .. n |-> 0]

\* the kinds serialize_primitive! is instantiated for
Kinds == {"i8", "u64", "usize", "u8", "i16", "i32", "i64", "u16", "u32", "f32", "f64"}

\* the $size argument of each instantiation
size_of(T) ==
    CASE T = "i8" -> SIZE_OF_I8
      [] T = "u64" -> SIZE_OF_U64
      [] T = "usize" -> SIZE_OF_USIZE
      [] T = "u8" -> SIZE_OF_U8
      [] T = "i16" -> SIZE_OF_I16
      [] T = "i32" -> SIZE_OF_I32
      [] T = "i64" -> SIZE_OF_I64
      [] T = "u16" -> SIZE_OF_U16
      [] T = "u32" -> SIZE_OF_U32
      [] T = "f32" -> SIZE_OF_U32
      [] T = "f64" -> SIZE_OF_U64

\* the in-memory width of a value of kind T (what the raw pointer cast reads)
width_of(T) ==
    CASE T \in {"i8", "u8"} -> 1
      [] T \in {"i16", "u16"} -> 2
      [] T \in {"i32", "u32", "f32"} -> 4
      [] T \in {"i64", "u64", "f64"} -> 8
      [] T = "usize" -> SIZE_OF_USIZE

Signed(T) == T \in {"i8", "i16", "i32", "i64"}

Modulus(T) == Pow(ByteRadix, width_of(T))

\* the values of kind T; a float is its bit pattern
Lo(T) == IF Signed(T) THEN 0 - (Modulus(T) \div 2) ELSE 0

Hi(T) == IF Signed(T) THEN (Modulus(T) - 1) \div 2 ELSE Modulus(T) - 1

U64_MAX == Hi("u64")

\* isize::MAX of the host
ISIZE_MAX == (Pow(ByteRadix, SIZE_OF_USIZE) - 1) \div 2

(* --------------------- values and their memory ------------------------ *)
\* the bytes of a value of kind T in memory: host (little-endian) order,
\* two's complement for the signed kinds
MemoryImage(T, v) ==
    [i \in 1 .. width_of(T) |-> ((v % Modulus(T)) \div Pow(ByteRadix, i - 1)) % ByteRadix]

RECURSIVE Unsigned(_)
Unsigned(bytes) ==
    IF bytes = <<>> THEN 0 ELSE Head(bytes) + ByteRadix * Unsigned(Tail(bytes))

\* a read through a pointer to the unsigned kind of the same width
FromImage_unsigned(T, bytes) == Unsigned(bytes)

\* the value a pointer to kind T reads from these bytes (the buffer is a
\* heap allocation, aligned for every kind here)
FromImage(T, bytes) ==
    LET u == Unsigned(bytes)
    IN  IF Signed(T) /\ u > Hi(T) THEN u - Modulus(T) ELSE u

\* the memory of a Vec<T> or &[T]: its elements back to back
RECURSIVE ArrayImage(_, _)
ArrayImage(T, s) ==
    IF s = <<>> THEN <<>> ELSE MemoryImage(T, Head(s)) \o ArrayImage(T, Tail(s))

(* --------------------- the sink and source (CFile) -------------------- *)
\* the store after `bytes` are written at offset p; a write past the end
\* leaves a hole of zero bytes
PutBytes(f, p, bytes) ==
    IF bytes = <<>> THEN f
    ELSE LET g == IF p > Len(f) THEN f \o Zeros(p - Len(f)) ELSE f
         IN  [i \in 1 .. Max(Len(g), p + Len(bytes)) |->
                IF i > p /\ i <= p + Len(bytes) THEN bytes[i - p] ELSE g[i]]

\* Write::write at the cursor, the device taking n of the bytes
write(f, p, data, n) ==
    [file |-> PutBytes(f, p, SubSeq(data, 1, n)), pos |-> p + n, n |-> n]

\* Write::write_all at the cursor: write is called until every byte is
\* taken; the device takes `room` more bytes and then refuses (an error, or
\* a write of zero bytes), which ends the loop with Err
write_all(f, p, data, room) ==
    LET n == Min(Len(data), room)
        w == write(f, p, data, n)
    IN  [file |-> w.file, pos |-> w.pos, n |-> n, ok |-> n = Len(data)]

\* the bytes the source holds from offset p on
Available(f, p) == IF p >= Len(f) THEN 0 ELSE Len(f) - p

\* Read::read at the cursor into a buffer of n bytes: as many as there are
read(f, p, n) ==
    LET k == Min(n, Available(f, p))
    IN  [bytes |-> SubSeq(f, p + 1, p + k), pos |-> p + k, n |-> k]

\* Read::read_exact: Err (UnexpectedEof) when the source ends before the
\* buffer is full, the bytes that were there consumed
read_exact(f, p, n) ==
    LET r == read(f, p, n)
    IN  [bytes |-> r.bytes, pos |-> r.pos, ok |-> r.n = n]

(* ----------------------------- the codec ------------------------------ *)
\* impl Serialize for $prim: serialize writes the first $size bytes of the
\* value's memory with write_all
serialize_prim(T, v, f, p, room) ==
    LET x == MemoryImage(T, v)
        y == SubSeq(x, 1, size_of(T))
    IN  write_all(f, p, y, room)

\* impl Serialize for $prim: serialized_len
serialized_len_prim(T) == size_of(T)

\* a buffer one byte longer than $size
deserialize_prim_wide(T, f, p) ==
    LET buffer == read_exact(f, p, size_of(T) + 1)
    IN  IF buffer.ok
        THEN [tag |-> "Ok", val |-> <<FromImage(T, SubSeq(buffer.bytes, 1, width_of(T)))>>,
              pos |-> buffer.pos]
        ELSE [tag |-> "Err", val |-> <<>>, pos |-> buffer.pos]

\* impl Serialize for $prim: deserialize fills a buffer of $size bytes with
\* read_exact and reads a $prim from its start
deserialize_prim(T, f, p) ==
    LET buffer == read_exact(f, p, size_of(T))
    IN  IF buffer.ok
        THEN [tag |-> "Ok", val |-> <<FromImage(T, SubSeq(buffer.bytes, 1, width_of(T)))>>,
              pos |-> buffer.pos]
        ELSE [tag |-> "Err", val |-> <<>>, pos |-> buffer.pos]

\* impl Serialize for Vec<$prim>: serialize writes the length as a u64, then
\* $size * len bytes of the elements' memory
serialize_vec(T, s, f, p, room) ==
    LET first == serialize_prim("u64", Len(s), f, p, room)
        y == SubSeq(ArrayImage(T, s), 1, size_of(T) * Len(s))
        second == write_all(first.file, first.pos, y, room - first.n)
    IN  IF ~first.ok THEN first
        ELSE [file |-> second.file, pos |-> second.pos,
              n |-> first.n + second.n, ok |-> second.ok]

\* the payload alone, without the 8 bytes of the count
serialized_len_vec_no_prefix(T, s) == (Len(s) * size_of(T)) % (U64_MAX + 1)

\* impl Serialize for Vec<$prim>: serialized_len, a u64
serialized_len_vec(T, s) == (Len(s) * size_of(T) + 8) % (U64_MAX + 1)

\* Vec::with_capacity(size as usize) for elements of kind T: a capacity of
\* more than isize::MAX bytes panics (capacity overflow)
with_capacity(T, size) ==
    IF size * width_of(T) > ISIZE_MAX THEN "panic" ELSE "ok"

\* the loop with each element put in front of the ones read before it
RECURSIVE read_elements_reversed(_, _, _, _, _)
read_elements_reversed(T, f, p, size, ret) ==
    IF size = 0 THEN [tag |-> "Ok", val |-> ret, pos |-> p]
    ELSE LET x == read_exact(f, p, size_of(T))
         IN  IF x.ok
             THEN read_elements_reversed(T, f, x.pos, size - 1,
                                         <<FromImage(T, x.bytes)>> \o ret)
             ELSE [tag |-> "Err", val |-> <<>>, pos |-> x.pos]

\* the loop `for _ in 0..size` of Vec<$prim>::deserialize: one element per
\* turn, the first Err returned
RECURSIVE read_elements(_, _, _, _, _)
read_elements(T, f, p, size, ret) ==
    IF size = 0 THEN [tag |-> "Ok", val |-> ret, pos |-> p]
    ELSE LET x == deserialize_prim(T, f, p)
         IN  IF x.tag = "Ok"
             THEN read_elements(T, f, x.pos, size - 1, ret \o x.val)
             ELSE [tag |-> "Err", val |-> <<>>, pos |-> x.pos]

\* impl Serialize for Vec<$prim>: deserialize reads the u64 count, reserves
\* that many elements and reads them one by one
deserialize_vec(T, f, p) ==
    LET size == deserialize_prim("u64", f, p)
    IN  IF size.tag # "Ok" THEN size
        ELSE LET ret == with_capacity(T, size.val[1])
             IN  IF ret # "ok" THEN [tag |-> ret, val |-> <<>>, pos |-> size.pos]
                 ELSE read_elements(T, f, size.pos, size.val[1], <<>>)

\* impl Serialize for &[$prim]: the same three bodies
serialize_slice(T, s, f, p, room) ==
    LET first == serialize_prim("u64", Len(s), f, p, room)
        y == SubSeq(ArrayImage(T, s), 1, size_of(T) * Len(s))
        second == write_all(first.file, first.pos, y, room - first.n)
    IN  IF ~first.ok THEN first
        ELSE [file |-> second.file, pos |-> second.pos,
              n |-> first.n + second.n, ok |-> second.ok]

serialized_len_slice(T, s) == (Len(s) * size_of(T) + 8) % (U64_MAX + 1)

deserialize_slice(T, f, p) ==
    LET size == deserialize_prim("u64", f, p)
    IN  IF size.tag # "Ok" THEN size
        ELSE LET ret == with_capacity(T, size.val[1])
             IN  IF ret # "ok" THEN [tag |-> ret, val |-> <<>>, pos |-> size.pos]
                 ELSE read_elements(T, f, size.pos, size.val[1], <<>>)

\* impl Serialize for String and for &str: serialize is the byte slice's
\* (text is its bytes, as_bytes)
serialize_str(text, f, p, room) == serialize_slice("u8", text, f, p, room)

\* impl Serialize for String and for &str: serialized_len
serialized_len_str(text) == (Len(text) + 8) % (U64_MAX + 1)

(* ------------------------ the store (CFile) --------------------------- *)
\* Seek::seek: the cursor after a reposition to `target`; a reposition the
\* device refuses leaves the cursor where it was
seek(p, target, ok) == IF ok THEN target ELSE p

\* <CFile as RandomAccessFile>::read_at: the result of seek is dropped, the
\* result of read returned; dat is the caller's buffer
read_at(f, p, at, dat, seekOk, readOk) ==
    LET cur == seek(p, at, seekOk)
        r == read(f, cur, Len(dat))
    IN  IF readOk
        THEN [tag |-> "Ok", n |-> r.n, dat |-> r.bytes \o SubSeq(dat, r.n + 1, Len(dat)),
              file |-> f, pos |-> r.pos, from |-> cur]
        ELSE [tag |-> "Err", n |-> 0, dat |-> dat, file |-> f, pos |-> cur, from |-> cur]

\* <CFile as RandomAccessFile>::write_at: the result of seek is dropped, the
\* result of one write returned (the device takes k of the bytes)
write_at(f, p, at, data, seekOk, writeOk, k) ==
    LET cur == seek(p, at, seekOk)
        w == write(f, cur, data, k)
    IN  IF writeOk
        THEN [tag |-> "Ok", n |-> w.n, dat |-> data, file |-> w.file, pos |-> w.pos,
              from |-> cur]
        ELSE [tag |-> "Err", n |-> 0, dat |-> data, file |-> f, pos |-> cur, from |-> cur]

\* <CFile as RandomAccessFile>::append: seek to the end, its result dropped,
\* then write_all
append(f, p, data, seekOk, room) ==
    LET cur == seek(p, Len(f), seekOk)
        w == write_all(f, cur, data, room)
    IN  [tag |-> IF w.ok THEN "Ok" ELSE "Err", n |-> w.n, dat |-> data,
         file |-> w.file, pos |-> w.pos, from |-> cur]

\* RandomAccessFile::at: read_at into the one-byte buffer [0u8]; Ok(_)
\* gives Ok(x[0])
at(f, p, index, seekOk, readOk) ==
    LET x == <<0>>
        r == read_at(f, p, index, x, seekOk, readOk)
    IN  IF r.tag = "Ok"
        THEN [tag |-> "Ok", n |-> r.n, dat |-> <<r.dat[1]>>, file |-> f, pos |-> r.pos,
              from |-> r.from]
        ELSE r

(* ------------------------------ state --------------------------------- *)
VARIABLES
    file,       \* the bytes of the store
    pos,        \* the cursor of the CFile
    prim,       \* the $prim of the instantiation the callers use
    last,       \* the last call: its arguments, its result, the store before it
    sent,       \* the values serialized back to back and still untouched
    sentStart,  \* where the first of them starts
    got,        \* the values deserialized one after the other from sentStart on
    nops        \* the number of serialize and deserialize calls made

vars == <<file, pos, prim, last, sent, sentStart, got, nops>>

NoCall ==
    [op |-> "none", form |-> "-", kind |-> "-", arg |-> <<>>, at |-> 0, n |-> 0,
     tag |-> "Ok", val |-> <<>>, pre |-> <<>>, prepos |-> 0, from |-> 0,
     seekOk |-> TRUE, devOk |-> TRUE, again |-> FALSE]

\* a panic ends the caller
Running == last.tag \in {"Ok", "Err"}

Init ==
    /\ file = <<>>
    /\ pos = 0
    /\ prim \in Kinds
    /\ last = NoCall
    /\ sent = <<>>
    /\ sentStart = 0
    /\ got = <<>>
    /\ nops = 0

(* ------------------------ what the callers pass ----------------------- *)
Sample(T) ==
    IF Signed(T) THEN {Lo(T), Hi(T)}
    ELSE IF T = "u64" THEN {65, Hi(T)}
    ELSE {1, Hi(T)}

SeqSamples(T) ==
    {[i \in 1 .. n |-> IF i % 2 = 1 THEN Hi(T) ELSE Lo(T) + 1] : n \in {0, MaxSeqLen}}

Texts == {<<1, 2, 3>>}

\* what the medium takes from a write at the cursor
Room == Max(0, SinkCapacity - pos)

RECURSIVE Bytes(_)
Bytes(frames) == IF frames = <<>> THEN 0 ELSE Head(frames).n + Bytes(Tail(frames))

SentEnd == sentStart + Bytes(sent)

(* ---------------------------- codec calls ----------------------------- *)
\* a serialize call of any form that wrote w at the cursor
Serialized(form, T, value, w) ==
    /\ file' = w.file
    /\ pos' = w.pos
    /\ last' = [NoCall EXCEPT !.op = "serialize", !.form = form, !.kind = T,
                              !.arg = value, !.at = pos, !.from = pos, !.n = w.n,
                              !.tag = IF w.ok THEN "Ok" ELSE "Err",
                              !.pre = file, !.prepos = pos]
    /\ LET frame == [seq |-> form # "prim", kind |-> T, val |-> value, n |-> w.n]
       IN  IF ~w.ok THEN sent' = <<>> /\ sentStart' = 0
           ELSE IF sent # <<>> /\ pos = SentEnd
                THEN sent' = Append(sent, frame) /\ sentStart' = sentStart
                ELSE sent' = <<frame>> /\ sentStart' = pos
    /\ got' = <<>>
    /\ nops' = nops + 1
    /\ UNCHANGED prim

SerializePrim ==
    /\ Running /\ nops < MaxOps
    /\ \E v \in Sample(prim) :
          Serialized("prim", prim, <<v>>, serialize_prim(prim, v, file, pos, Room))

SerializeVec ==
    /\ Running /\ nops < MaxOps
    /\ \E s \in SeqSamples(prim) :
          Serialized("Vec", prim, s, serialize_vec(prim, s, file, pos, Room))

SerializeSlice ==
    /\ Running /\ nops < MaxOps
    /\ \E s \in SeqSamples(prim) :
          Serialized("slice", prim, s, serialize_slice(prim, s, file, pos, Room))

SerializeStr ==
    /\ Running /\ nops < MaxOps
    /\ \E text \in Texts :
          Serialized("str", "u8", text, serialize_str(text, file, pos, Room))

\* a deserialize call of any form with result r
Deserialized(form, T, r) ==
    /\ pos' = r.pos
    /\ last' = [NoCall EXCEPT !.op = "deserialize", !.form = form, !.kind = T,
                              !.at = pos, !.from = pos, !.n = r.pos - pos,
                              !.tag = r.tag, !.val = r.val,
                              !.pre = file, !.prepos = pos]
    /\ LET entry == [seq |-> form # "prim", kind |-> T, val |-> r.val, n |-> r.pos - pos]
       IN  IF r.tag # "Ok" THEN got' = <<>>
           ELSE IF got # <<>> THEN got' = Append(got, entry)
           ELSE IF sent # <<>> /\ pos = sentStart THEN got' = <<entry>>
           ELSE got' = <<>>
    /\ nops' = nops + 1
    /\ UNCHANGED <<file, prim, sent, sentStart>>

DeserializePrim ==
    /\ Running /\ nops < MaxOps
    /\ Deserialized("prim", prim, deserialize_prim(prim, file, pos))

DeserializeVec ==
    /\ Running /\ nops < MaxOps
    /\ Deserialized("Vec", prim, deserialize_vec(prim, file, pos))

DeserializeSlice ==
    /\ Running /\ nops < MaxOps
    /\ Deserialized("slice", prim, deserialize_slice(prim, file, pos))

\* the caller's own raf.seek(SeekFrom::Start(p)) between the calls
Seek ==
    /\ Running
    /\ \E p \in {0, sentStart} :
          /\ pos' = seek(pos, p, TRUE)
          /\ last' = [NoCall EXCEPT !.op = "seek", !.at = p, !.pre = file, !.prepos = pos]
    /\ got' = <<>>
    /\ UNCHANGED <<file, prim, sent, sentStart, nops>>

Next ==
    \/ SerializePrim
    \/ SerializeVec
    \/ SerializeSlice
    \/ SerializeStr
    \/ DeserializePrim
    \/ DeserializeVec
    \/ DeserializeSlice
    \/ Seek

Spec == Init /\ [][Next]_vars

(* ---------------------------- store calls ----------------------------- *)
\* the byte strings the callers write
Datas == {<<1>>, <<2, 3>>}

Offsets == 0 .. MaxOffset

\* a store call with result r
StoreCall(op, offset, data, r, seekOk, devOk) ==
    /\ Len(r.file) <= MaxFileLen
    /\ file' = r.file
    /\ pos' = r.pos
    /\ last' = [NoCall EXCEPT !.op = op, !.at = offset, !.arg = data, !.n = r.n,
                              !.tag = r.tag, !.val = r.dat, !.pre = file,
                              !.prepos = pos, !.from = r.from,
                              !.seekOk = seekOk, !.devOk = devOk,
                              !.again = /\ last.op = op /\ last.at = offset
                                        /\ last.arg = data /\ last.tag = "Ok"]
    /\ UNCHANGED <<prim, sent, sentStart, got, nops>>

ReadAt ==
    /\ Running
    /\ \E offset \in Offsets, d \in Datas, seekOk \in BOOLEAN, readOk \in BOOLEAN :
           StoreCall("read_at", offset, Zeros(Len(d)),
                     read_at(file, pos, offset, Zeros(Len(d)), seekOk, readOk),
                     seekOk, readOk)

WriteAt ==
    /\ Running
    /\ \E offset \in Offsets, data \in Datas, seekOk \in BOOLEAN, writeOk \in BOOLEAN :
           \E k \in 0 .. Len(data) :
               StoreCall("write_at", offset, data,
                         write_at(file, pos, offset, data, seekOk, writeOk, k),
                         seekOk, writeOk)

AppendCall ==
    /\ Running
    /\ \E data \in Datas, seekOk \in BOOLEAN : \E room \in 0 .. Len(data) :
           StoreCall("append", Len(file), data,
                     append(file, pos, data, seekOk, room),
                     seekOk, room = Len(data))

AtCall ==
    /\ Running
    /\ \E index \in Offsets, seekOk \in BOOLEAN, readOk \in BOOLEAN :
           StoreCall("at", index, <<0>>,
                     at(file, pos, index, seekOk, readOk),
                     seekOk, readOk)

StoreInit == Init /\ prim = "u8"

StoreNext ==
    \/ ReadAt
    \/ WriteAt
    \/ AppendCall
    \/ AtCall

StoreSpec == StoreInit /\ [][StoreNext]_vars

(* ------------------------- claims: the codec -------------------------- *)
\* where the i-th of the values serialized back to back starts
FrameStart(i) == sentStart + Bytes(SubSeq(sent, 1, i - 1))

\* the value serialized where the last deserialize call began, if any
FramesAt(p) == {i \in 1 .. Len(sent) : FrameStart(i) = p}

\* C1: a primitive serialized into the sink and deserialized, as the same
\* kind, from the position where its bytes start comes back Ok and equal
\* (a float is equal when its bits are).
RoundTripPrimitive ==
    (last.op = "deserialize" /\ last.form = "prim") =>
        \A i \in FramesAt(last.from) :
            (~sent[i].seq /\ sent[i].kind = last.kind) =>
                (last.tag = "Ok" /\ last.val = sent[i].val)

\* C1, Scenario A: 65u64 written at offset 0 has been read back from offset 0
RoundTripPrimitiveReached ==
    /\ last.op = "deserialize" /\ last.form = "prim" /\ last.kind = "u64"
    /\ last.from = 0 /\ sentStart = 0 /\ Len(sent) = 1
    /\ sent[1].val = <<65>> /\ ~sent[1].seq
    /\ last.tag = "Ok" /\ last.val = <<65>>

\* C2: a sequence (Vec or slice, the empty one too) serialized into the
\* sink and deserialized, with the same element kind, from the position
\* where its bytes start comes back Ok with the same length and elements.
RoundTripSequence ==
    (last.op = "deserialize" /\ last.form \in {"Vec", "slice"}) =>
        \A i \in FramesAt(last.from) :
            (sent[i].seq /\ sent[i].kind = last.kind) =>
                /\ last.tag = "Ok"
                /\ Len(last.val) = Len(sent[i].val)
                /\ \A k \in 1 .. Len(sent[i].val) : last.val[k] = sent[i].val[k]

\* C2: a sequence of MaxSeqLen elements of different values has come back
RoundTripSequenceReached ==
    /\ last.op = "deserialize" /\ last.form = "Vec"
    /\ Len(sent) = 1 /\ last.from = sentStart /\ sent[1].seq
    /\ Len(sent[1].val) = MaxSeqLen /\ sent[1].val[1] # sent[1].val[MaxSeqLen]
    /\ last.tag = "Ok" /\ last.val = sent[1].val

\* what serialized_len returns for the value of a serialize call
SerializedLenOf(form, T, value) ==
    CASE form = "prim" -> serialized_len_prim(T)
      [] form = "Vec" -> serialized_len_vec(T, value)
      [] form = "slice" -> serialized_len_slice(T, value)
      [] form = "str" -> serialized_len_str(value)

\* C3: a serialize call that returns Ok has written exactly serialized_len
\* bytes to the sink: the width for a primitive, 8 + width * count for a
\* sequence, 8 + the byte length for text.
LengthLaw ==
    (last.op = "serialize" /\ last.tag = "Ok") =>
        /\ last.n = SerializedLenOf(last.form, last.kind, last.arg)
        /\ pos - last.prepos = last.n
        /\ last.n = CASE last.form = "prim" -> width_of(last.kind)
                      [] last.form = "str" -> 8 + Len(last.arg)
                      [] OTHER -> 8 + width_of(last.kind) * Len(last.arg)

\* C3: a non-empty sequence of a kind wider than a byte has been written
LengthLawReached ==
    /\ last.op = "serialize" /\ last.tag = "Ok" /\ last.form = "slice"
    /\ Len(last.arg) = MaxSeqLen /\ width_of(last.kind) = 4
    /\ last.n = 8 + 4 * MaxSeqLen

\* the count a sequence's deserialize reads at p, and the elements of kind
\* T the source holds after it
PrefixAt(f, p) == Unsigned(SubSeq(f, p + 1, p + SIZE_OF_U64))

ElementsAfter(T, f, p) == Available(f, p + SIZE_OF_U64) \div size_of(T)

\* C4: deserializing a sequence whose count exceeds the elements the source
\* holds returns Err to the caller: never Ok, never a panic.
LyingPrefixIsErr ==
    (/\ last.op = "deserialize" /\ last.form \in {"Vec", "slice"}
     /\ Available(file, last.from) >= SIZE_OF_U64
     /\ PrefixAt(file, last.from) > ElementsAfter(last.kind, file, last.from))
        => last.tag = "Err"

\* the serialized length of the value a deserialize call returned
DeserializedLenOf(form, T, value) ==
    IF form = "prim" THEN serialized_len_prim(T) ELSE serialized_len_vec(T, value)

\* C10: a deserialize call that returns Ok(v) has moved the cursor by
\* exactly serialized_len(v) bytes; and of values serialized back to back,
\* successive deserialize calls of the matching kinds from the start return
\* the values in order.
Framing ==
    /\ (last.op = "deserialize" /\ last.tag = "Ok") =>
          /\ pos = last.from + DeserializedLenOf(last.form, last.kind, last.val)
          /\ last.n = DeserializedLenOf(last.form, last.kind, last.val)
    /\ \A i \in 1 .. Len(got) :
          (/\ i <= Len(sent)
           /\ \A j \in 1 .. i : got[j].seq = sent[j].seq /\ got[j].kind = sent[j].kind)
              => got[i].val = sent[i].val

\* C10: a primitive and a sequence written back to back have both come back
FramingReached ==
    /\ Len(sent) = 2 /\ Len(got) = 2
    /\ ~sent[1].seq /\ sent[2].seq /\ Len(sent[2].val) = MaxSeqLen
    /\ ~got[1].seq /\ got[2].seq
    /\ got[1].val = sent[1].val /\ got[2].val = sent[2].val
    /\ pos = SentEnd

(* ------------------------- claims: the store -------------------------- *)
\* C5: after append(data) returns Ok the store is len(data) bytes longer,
\* the bytes before the old end are as they were, and a read of len(data)
\* bytes at the old end gives data.
AppendMonotonic ==
    (last.op = "append" /\ last.tag = "Ok") =>
        /\ Len(file) = Len(last.pre) + Len(last.arg)
        /\ SubSeq(file, 1, Len(last.pre)) = last.pre
        /\ read(file, Len(last.pre), Len(last.arg)).bytes = last.arg

\* C6: a second write_at with the arguments of the one before it leaves
\* the store (contents and length) as the first one left it.
WriteAtIdempotent ==
    (last.op = "write_at" /\ last.again) => file = last.pre

\* C7: a store call whose seek, read or write fails returns Err, and after
\* a failed reposition nothing is read or written.
FailuresSurface ==
    (last.op \in {"read_at", "write_at", "append", "at"}) =>
        /\ (~last.seekOk \/ ~last.devOk) => last.tag = "Err"
        /\ ~last.seekOk => (last.n = 0 /\ file = last.pre)

\* C8: append returns Ok with all of data written at the end of the store,
\* or it returns Err.
AppendAllOrError ==
    (last.op = "append") =>
        \/ last.tag = "Err"
        \/ last.tag = "Ok" /\ file = last.pre \o last.arg

\* C9: at(index) returns Err exactly when the read fails; otherwise it
\* returns the byte at index, or 0 when index is at or past the end.
AtReturnsTheByte ==
    (last.op = "at") =>
        /\ (last.tag = "Err") <=> ~last.devOk
        /\ (last.tag = "Ok") =>
              last.val = <<IF last.at < Len(file) THEN file[last.at + 1] ELSE 0>>

====
